---- MODULE Spec2Model ----
(***************************************************************************)
(* Model of docs/conf.py: the Sphinx configuration module of the          *)
(* SQLAlchemy tutorial site.  The module is executed once by the host     *)
(* (Load), its setup(app) hook is called by the host at build             *)
(* initialisation (Setup), and the role it registers is called once per   *)
(* occurrence of :paramref:`...` while documents are parsed (Invoke).     *)
(*                                                                         *)
(* Text is a sequence of one-character strings.  Optional values (an      *)
(* attribute not yet assigned, a module not yet loaded) are sequences of  *)
(* length 0 or 1.                                                          *)
(***************************************************************************)
EXTENDS Naturals, Sequences, FiniteSets

VARIABLES
    environ,      \* os.environ: a set of <<name, value>> pairs, one per name
    config,       \* the module-level settings of conf.py: <<>> before the module is executed
    environAtLoad,\* history: os.environ as it was when conf.py was executed
    registry,     \* the host's role registry: a set of <<role name, role instance>>
    ninstances,   \* ParamRef() instances created so far (one per setup call)
    self_text,    \* self.text of the registered ParamRef instance: <<>> until the host calls it
    result,       \* what the last call of ParamRef.run returned: <<>> before the first call
    memo          \* history: the text and the result of some call of run before the last one

vars == <<environ, config, environAtLoad, registry, ninstances, self_text, result, memo>>

----------------------------------------------------------------------------
(* Bounds of the model *)

\* longest role text enumerated exhaustively
MaxLen == 3

\* most setup(app) calls in one process
MaxSetups == 2

Chars == {"a", "."}

RECURSIVE SeqsUpTo(_)
SeqsUpTo(n) ==
    IF n = 0 THEN {<<>>}
    ELSE LET shorter == SeqsUpTo(n - 1)
         IN  shorter \cup {Append(s, c) : s \in {x \in shorter : Len(x) = n - 1}, c \in Chars}

\* the example texts of the documentation of the role
EngineConnect == <<"E","n","g","i","n","e",".","c","o","n","n","e","c","t">>
Engine == <<"E","n","g","i","n","e">>
ABCD == <<"a",".","b",".","c",".","d">>

Texts == SeqsUpTo(MaxLen) \cup {EngineConnect, Engine, ABCD}

EnvNames == {"READTHEDOCS"}
EnvValues == {"", "True"}

----------------------------------------------------------------------------
(* conf.py, module level *)

\* "READTHEDOCS" in os.environ, by truthiness of the value instead of presence
InEnvironTruthy(name, env) == \E p \in env : p[1] = name /\ p[2] # ""

\* name in os.environ
InEnviron(name, env) == \E p \in env : p[1] = name

\* the settings conf.py declares, executed in environment env
ConfModule(env) ==
    [ project |-> "SQLAlchemy 1.4/2.0 Tutorial",
      exclude_patterns |-> <<"_build", "Thumbs.db", ".DS_Store", "**.ipynb_checkpoints">>,
      extensions |-> <<"myst_nb", "sphinx.ext.intersphinx", "sphinx_copybutton", "sphinx_design">>,
      myst_enable_extensions |-> <<"colon_fence">>,
      execution_show_tb |-> InEnviron("READTHEDOCS", env),
      intersphinx_mapping |-> [sqlalchemy |-> <<"https://docs.sqlalchemy.org/en/14/", "None">>],
      html_theme |-> "sphinx_book_theme",
      html_static_path |-> <<"_static">>,
      html_css_files |-> <<"custom.css">>,
      html_theme_options |->
        [ repository_url |-> "https://github.com/chrisjsewell/sqla-tutorials-nb",
          repository_branch |-> "main",
          use_repository_button |-> TRUE,
          use_edit_page_button |-> TRUE,
          use_issues_button |-> TRUE,
          path_to_docs |-> "docs",
          launch_buttons |->
            [ notebook_interface |-> "classic",
              binderhub_url |-> "https://mybinder.org",
              jupyterhub_url |-> "",
              colab_url |-> "https://colab.research.google.com" ] ] ]

----------------------------------------------------------------------------
(* ParamRef.run *)

\* a wrong separator
SepWrong == "a"

\* the separator of self.text.split(".")
Sep == "."

HasSep(text, sep) == \E i \in 1..Len(text) : text[i] = sep

FirstSep(text, sep) == CHOOSE i \in 1..Len(text) : text[i] = sep /\ \A j \in 1..(i - 1) : text[j] # sep

\* str.split(sep): the pieces between the occurrences of sep, empty pieces kept
RECURSIVE split(_, _)
split(text, sep) ==
    IF ~HasSep(text, sep) THEN <<text>>
    ELSE LET i == FirstSep(text, sep)
         IN  <<SubSeq(text, 1, i - 1)>> \o split(SubSeq(text, i + 1, Len(text)), sep)

\* a split that drops the empty pieces
SplitDropEmpty(text) == SelectSeq(split(text, Sep), LAMBDA p : p # <<>>)

\* self.text.split(".", 1): split at the first separator only
SplitAtFirst(text) ==
    IF ~HasSep(text, Sep) THEN <<text>>
    ELSE LET i == FirstSep(text, Sep)
         IN  <<SubSeq(text, 1, i - 1), SubSeq(text, i + 1, Len(text))>>

\* self.text.split(".")
SplitText(text) == split(text, Sep)

\* parts[0] in place of parts[-1]
FirstPart(parts) == parts[1]

\* parts[-1], on a non-empty list
LastPart(parts) == parts[Len(parts)]

\* nodes.literal(text, rawsource): the arguments swapped
LiteralSwapped(rawsource, text) == [rawsource |-> text, text |-> rawsource]

\* nodes.literal(rawsource, text)
Literal(rawsource, text) == [rawsource |-> rawsource, text |-> text]

\* run(self): ([node], []), or IndexError from [-1] on an empty list
run(text) ==
    LET parts == SplitText(text)
    IN  IF Len(parts) = 0
        THEN [raised |-> "IndexError", nodes |-> <<>>, messages |-> <<>>]
        ELSE [raised |-> "none", nodes |-> <<Literal(text, LastPart(parts))>>, messages |-> <<>>]

----------------------------------------------------------------------------
(* setup(app) *)

\* a misspelt role name
RoleNameTypo == "paramlink"

\* the name under which setup registers the role
RoleName == "paramref"

\* app.add_role(name, role): the host's registry is keyed by name, a new
\* registration under a name replaces the one there
AddRole(reg, name, role) == {p \in reg : p[1] # name} \cup {<<name, role>>}

Registered(name) == \E p \in registry : p[1] = name

----------------------------------------------------------------------------
(* The state machine *)

Init ==
    /\ environ \in {{}} \cup {{<<name, value>>} : name \in EnvNames, value \in EnvValues}
    /\ config = <<>>
    /\ environAtLoad = <<>>
    /\ registry = {}
    /\ ninstances = 0
    /\ self_text = <<>>
    /\ result = <<>>
    /\ memo = <<>>

\* os.environ[name] = value, by the process or its host
SetEnv(name, value) ==
    /\ environ' = {p \in environ : p[1] # name} \cup {<<name, value>>}
    /\ UNCHANGED <<config, environAtLoad, registry, ninstances, self_text, result, memo>>

\* del os.environ[name]
DelEnv(name) ==
    /\ \E p \in environ : p[1] = name
    /\ environ' = {p \in environ : p[1] # name}
    /\ UNCHANGED <<config, environAtLoad, registry, ninstances, self_text, result, memo>>

\* the host executes conf.py
Load ==
    /\ config = <<>>
    /\ config' = <<ConfModule(environ)>>
    /\ environAtLoad' = <<environ>>
    /\ UNCHANGED <<environ, registry, ninstances, self_text, result, memo>>

\* a setup that also appends to the extensions setting
SetupTouchingConfig ==
    /\ config # <<>>
    /\ ninstances < MaxSetups
    /\ ninstances' = ninstances + 1
    /\ registry' = AddRole(registry, RoleName, ninstances + 1)
    /\ self_text' = <<>>
    /\ config' = <<[config[1] EXCEPT !.extensions = Append(@, "paramlinks")]>>
    /\ UNCHANGED <<environ, environAtLoad, result, memo>>

\* a setup that calls the new role once before registering it
SetupCallingRun ==
    /\ config # <<>>
    /\ ninstances < MaxSetups
    /\ ninstances' = ninstances + 1
    /\ registry' = AddRole(registry, RoleName, ninstances + 1)
    /\ self_text' = <<Engine>>
    /\ result' = <<run(Engine)>>
    /\ UNCHANGED <<environ, config, environAtLoad, memo>>

\* the host calls setup(app): a new ParamRef class, one instance of it, one add_role
Setup ==
    /\ config # <<>>
    /\ ninstances < MaxSetups
    /\ ninstances' = ninstances + 1
    /\ registry' = AddRole(registry, RoleName, ninstances + 1)
    /\ self_text' = <<>>
    /\ UNCHANGED <<environ, config, environAtLoad, result, memo>>

\* a call whose run reads the text the instance held before this call
CallStale(text) ==
    /\ Registered(RoleName)
    /\ self_text' = <<text>>
    /\ result' = <<run(IF self_text = <<>> THEN text ELSE self_text[1])>>
    /\ \/ memo' = memo
       \/ /\ self_text # <<>>
          /\ memo' = <<[text |-> self_text[1], result |-> result[1]]>>
    /\ UNCHANGED <<environ, config, environAtLoad, registry, ninstances>>

\* the parser meets :paramref:`text`: the host looks the role up by name,
\* assigns self.text and calls run()
Call(text) ==
    /\ Registered(RoleName)
    /\ self_text' = <<text>>
    /\ result' = <<run(self_text'[1])>>
    /\ \/ memo' = memo
       \/ /\ self_text # <<>>
          /\ memo' = <<[text |-> self_text[1], result |-> result[1]]>>
    /\ UNCHANGED <<environ, config, environAtLoad, registry, ninstances>>

Invoke == \E text \in Texts : Call(text)

ChangeEnv == \E name \in EnvNames : DelEnv(name) \/ \E value \in EnvValues : SetEnv(name, value)

Next ==
    \/ ChangeEnv
    \/ Load
    \/ Setup
    \/ Invoke

Spec == Init /\ [][Next]_vars

----------------------------------------------------------------------------
(* Properties *)

\* some call of run has returned and the instance still holds its text
Called == self_text # <<>> /\ result # <<>>

HasDot(t) == \E i \in 1..Len(t) : t[i] = "."

\* the place of the last "." of t, 0 when t has none
LastDot(t) == IF HasDot(t) THEN CHOOSE i \in 1..Len(t) : t[i] = "." /\ \A j \in (i + 1)..Len(t) : t[j] # "." ELSE 0

AfterLastDot(t) == SubSeq(t, LastDot(t) + 1, Len(t))

\* not a sequence of non-empty segments joined by single dots
Malformed(t) ==
    \/ ~HasDot(t)
    \/ t[1] = "."
    \/ t[Len(t)] = "."
    \/ \E i \in 1..(Len(t) - 1) : t[i] = "." /\ t[i + 1] = "."

\* C1: for every role text t, run returns exactly one literal node, whose raw
\* source is t unchanged and whose text is the part of t after its last "."
C1_LastSegment ==
    Called =>
        LET t == self_text[1]
            r == result[1]
        IN  /\ Len(r.nodes) = 1
            /\ r.nodes[1].rawsource = t
            /\ r.nodes[1].text = AfterLastDot(t)

\* "a.b.c.d" has been rendered as "d"
C1_Witness ==
    /\ Called
    /\ self_text[1] = ABCD
    /\ result[1].nodes = <<[rawsource |-> ABCD, text |-> <<"d">>]>>

C3_NoError ==
    Called => result[1].raised = "none" /\ result[1].messages = <<>>

\* run has returned normally, with no message, on the empty text or on a text of dots only
C3_Witness ==
    /\ Called
    /\ self_text[1] \in {<<>>, <<".">>, <<".", ".">>}
    /\ result[1].raised = "none"
    /\ result[1].messages = <<>>

\* C4 as stated: for every malformed dotted path the rendered text is the
\* whole input text
C4_MalformedRendersWhole ==
    Called /\ Malformed(self_text[1]) => result[1].nodes[1].text = self_text[1]

\* C4 amended: a malformed dotted path with no "." is rendered whole; one with
\* a "." is rendered as the part after its last ".", which is never the whole
C4_MalformedRendersLast ==
    Called /\ Malformed(self_text[1]) =>
        LET t == self_text[1]
            s == result[1].nodes[1].text
        IN  /\ ~HasDot(t) => s = t
            /\ HasDot(t) => s = AfterLastDot(t) /\ s # t

\* a text with a trailing dot has been rendered as the empty text
C4_Witness ==
    /\ Called
    /\ self_text[1] = <<"a", ".">>
    /\ result[1].nodes[1].text = <<>>

\* C5: for a text with no ".", the rendered text is the text itself, and is
\* the raw source of the node
C5_NoDotIdentity ==
    Called /\ ~HasDot(self_text[1]) =>
        /\ result[1].nodes[1].text = self_text[1]
        /\ result[1].nodes[1].text = result[1].nodes[1].rawsource

\* "Engine" has been rendered as "Engine"
C5_Witness ==
    /\ Called
    /\ self_text[1] = Engine
    /\ result[1].nodes[1].text = Engine

C7_ConfigStatic == [][config # <<>> => config' = config]_vars

\* setup has run twice and the role has been called, the settings as declared
C7_Witness ==
    /\ config # <<>>
    /\ ninstances > 1
    /\ Called
    /\ config[1] = ConfModule(environAtLoad[1])

\* C8: a call of the role happens only in a step that starts with the role
\* registered and that registers nothing: never before setup, never inside it
C8_RegisteredBeforeInvoked ==
    [][(result' # result \/ (self_text' # self_text /\ self_text' # <<>>))
          => (Registered("paramref") /\ registry' = registry)]_vars

\* the role has been called after its registration
C8_Witness ==
    /\ Called
    /\ Registered("paramref")
    /\ ninstances = 1

\* C9: execution_show_tb is TRUE exactly when READTHEDOCS was in the
\* environment when conf.py was executed, whatever its value, and whatever
\* the environment has become since
C9_ShowTbAtLoad ==
    config # <<>> =>
        (config[1].execution_show_tb <=> \E p \in environAtLoad[1] : p[1] = "READTHEDOCS")

\* loaded with READTHEDOCS set to the empty string, which has been deleted since
C9_Witness ==
    /\ config # <<>>
    /\ environAtLoad[1] = {<<"READTHEDOCS", "">>}
    /\ environ = {}
    /\ config[1].execution_show_tb

\* C10: the rendered text s has no ".", the input is s or ends with "."
\* followed by s, and rendering s gives s again
C10_SuffixIdempotent ==
    Called =>
        LET t == self_text[1]
            s == result[1].nodes[1].text
        IN  /\ ~HasDot(s)
            /\ \/ t = s
               \/ /\ Len(t) > Len(s)
                  /\ SubSeq(t, Len(t) - Len(s), Len(t)) = <<".">> \o s
            /\ run(s).nodes[1].text = s

\* a text with two dots has been rendered as its last segment
C10_Witness ==
    /\ Called
    /\ self_text[1] = <<".", ".", "a">>
    /\ result[1].nodes[1].text = <<"a">>

====
